---- MODULE Spec2Model ----
(***************************************************************************)
(* A model of src/jrpc2/client.go: the JSON-RPC client of shovel.          *)
(*                                                                         *)
(*   - RangeCache   type cache / segment, cache.get, pruneMaxRead,         *)
(*                  pruneSegments                                          *)
(*   - Fetchers     Client.blocks, Client.headers, validate                *)
(*   - Assembler    Client.Get and the receipts / logs / traces enrichers  *)
(*   - TipCache     type NumHash (get, update, error), Client.Latest and   *)
(*                  the background refreshers                              *)
(*                                                                         *)
(* Goroutines are the processes 1..NumProcs.  A sync.Mutex is a boolean    *)
(* (Go's mutex has no owner): Lock is a step guarded by the mutex being    *)
(* free.  Code that runs between two blocking points is one step.          *)
(***************************************************************************)
EXTENDS Integers, Sequences, FiniteSets, TLC

(***************************************************************************)
(* Bounds of the model.                                                    *)
(***************************************************************************)
\* goroutines calling into the client
NumProcs == 2
\* Get calls, or Latest calls, started in one behaviour
MaxCalls == 2
\* the configured reuse bound (New sets 20, WithMaxReads sets any n)
maxreads == 2
\* the highest head upstream reports
MaxHead == 2
\* the highest block number in an answer to the primary fetchers
MaxNum == 3

\* goroutines calling Latest or NextURL in the specifications of the
\* one-shot and of the endpoint counter
NumCallers == 3
\* Latest calls started in one behaviour of the one-shot specification
MaxLatest == 4
\* len(c.urls)
NumURLs == 2
\* NextURL calls started in one behaviour
MaxNext == 6
MaxListens == 2

Procs == 1 .. NumProcs
Callers == 1 .. NumCallers

(***************************************************************************)
(* Program constants.                                                      *)
(***************************************************************************)
\* const size = 5 in pruneSegments
size == 5
\* make([]byte, 32) in NumHash.get
HashLen == 32

(***************************************************************************)
(* Data.  A hash is modelled by a number, 0 standing for the empty byte    *)
(* string; Hash(n) is the hash of the canonical block n and AltHash(n) the *)
(* hash of another block with that number (a fork or a wrong answer).      *)
(***************************************************************************)
Hash(n) == 10 + n
AltHash(n) == 20 + n

\* eth.Block as far as the client reads and writes it: Header.Number,
\* Header.Hash, Header.Parent and the transactions.
Block(n, h, ph) == [num |-> n, hash |-> h, parent |-> ph, txs |-> << >>]
ZeroBlock == Block(0, 0, 0)

\* key{a, b}: a is start, b is limit
Key(start, limit) == << start, limit >>

\* The caches of a Client
Caches == {"bcache", "hcache"}

\* A correctly linked answer for [start, start+limit)
GoodChain(start, limit) ==
    [i \in 1 .. limit |-> Block(start + i - 1, Hash(start + i - 1), Hash(start + i - 2))]

\* glf.Filter: the five selectors Get reads
Filter(ub, uh, ur, ul, ut) ==
    [UseBlocks |-> ub, UseHeaders |-> uh, UseReceipts |-> ur, UseLogs |-> ul,
     UseTraces |-> ut]

\* The keys the segments of a warm cache hold: size keys of limit 1
WarmKeys == {Key(s, 1) : s \in 2 .. (size + 1)}
\* The keys the callers of the RangeCache specification ask for: the lowest
\* warm key, one that ties with it on start, and one above every warm key
CacheKeys == {Key(2, 1), Key(2, 2), Key(size + 2, 1)}
\* The keys the callers of the Get specification ask for
GetKeys == {Key(1, 2)}
\* The keys the callers of the fetcher specification ask for
FetchKeys == {Key(1, 2), Key(1, 3)}
Keys == WarmKeys \cup CacheKeys \cup GetKeys \cup FetchKeys

\* Pointers to segments: 0 is nil.  A cache's table holds at most size + 1
\* segments, and each goroutine may hold one that left the table.
SegIds == 1 .. (2 * (size + 1) + NumProcs)

\* type segment struct { sync.Mutex; nreads int; done bool; d []eth.Block }
NilSeg == [mu |-> FALSE, nreads |-> 0, done |-> FALSE, d |-> << >>]

VARIABLES
    nocache,    \* Client.nocache
    mu,         \* cache.Mutex of each cache: TRUE when held
    segments,   \* cache.segments of each cache: key -> pointer
    heap,       \* the segments the pointers name
    pc,         \* where each goroutine is
    args,       \* the arguments of the Get call a goroutine is in
    seg,        \* cache.get's seg; Get's blocks when it aliases seg.d
    todo,       \* the keys pruneMaxRead's range has not visited yet
    loc,        \* Get's blocks when the slice is the goroutine's own
    ret,        \* the error of the Get call that just returned
    ncalls,     \* history: Get calls started
    hist,       \* history per cache and key: calls, fetches, failures
    served,     \* history per segment: get calls that returned its d
    note,       \* history per call: what the cache held when it began
    pend,       \* the enricher's progress: what it still has to write
    lcache,     \* Client.lcache, the NumHash
    running,    \* the refresher goroutines alive (wsListen or httpPoll)
    fatal,      \* the runtime stopped the program (fatal error)
    lpc,        \* where each goroutine is in Latest
    ln,         \* the n of the Latest call a goroutine is in
    lret,       \* what the Latest call that just returned gave
    nlatest,    \* history: Latest calls started
    hits,       \* history: hits of NumHash.get since nreads was last reset
    expired,    \* history: the last NumHash.get took Num from a head to 0
    owes,       \* history per call, where a specification notes it: Latest
                \* began as the first call after the refresher failed, and
                \* has not started a refresher
    reqCounter, \* Client.reqCounter
    upc,        \* where each goroutine is in NextURL
    picked,     \* history: how often NextURL returned each of c.urls
    nnext,      \* history: NextURL calls started
    wpc,        \* where the wsListen goroutine is
    elapsed,    \* the time since wsListen made its context, in quarters of
                \* a minute, up to the minute of its timeout
    broken,     \* history: dial, write or read failed on the network's side
    nlisten     \* history: wsListen calls started

getVars == << nocache, mu, segments, heap, pc, args, seg, todo, loc, ret, ncalls,
              hist, served, note, pend >>
tipVars == << lcache, running, fatal, lpc, ln, lret, nlatest, hits, expired, owes >>
urlVars == << reqCounter, upc, picked, nnext >>
wsVars == << wpc, elapsed, broken, nlisten >>
vars == << getVars, tipVars, urlVars, wsVars >>

NoArgs == [filter |-> Filter(FALSE, FALSE, FALSE, FALSE, FALSE), start |-> 0, limit |-> 0]
\* A Get's error: err its text ("" is nil), code the code of the Error of
\* the rpc's answer that it wraps, 0 when it wraps none or an empty one
NoRet == [err |-> "none", code |-> 0]
Nil == [err |-> "", code |-> 0]
\* rank: 0 when no fetch for the call's key had succeeded before the call
\* took the table's lock, else the number of calls for the key that took it
\* since the last success, this one included.  stale: the key's segment had nreads >= maxreads when
\* the call took the table's lock.
NoNote == [rank |-> 0, stale |-> FALSE]
NoHist == [calls |-> 0, fetches |-> 0, failed |-> FALSE, okSince |-> 0]

\* The history counts up to what the properties tell apart
Upto(n, max) == IF n < max THEN n + 1 ELSE max

\* The cache a Get call goes through (Get's first switch)
CacheOf(p) == IF args[p].filter.UseBlocks THEN "bcache" ELSE "hcache"
KeyOf(p) == Key(args[p].start, args[p].limit)

(***************************************************************************)
(* validate and the two primary fetchers.  A response is                   *)
(* [terr, items]: terr is a failure of Client.do, items the JSON array, of *)
(* [code, null, num, hash, parent]: code the error's, null a null result.  *)
(* Decoding is positional into the limit preallocated blocks: a block      *)
(* whose item is missing or null stays zero.                               *)
(***************************************************************************)
\* The code of the first rpc error of a batch (the loops at 571, 635, 688)
FirstCode(items) ==
    LET i == CHOOSE i \in DOMAIN items :
                 items[i].code # 0 /\ \A j \in 1 .. (i - 1) : items[j].code = 0
    IN  items[i].code

Ok(bs) == [err |-> "", code |-> 0, blocks |-> bs]
Err(e) == [err |-> e, code |-> 0, blocks |-> << >>]
\* The error wrapping the Error of the first item that has one
RpcErr(e, items) == [err |-> e, code |-> FirstCode(items), blocks |-> << >>]

Linked(bs) == \A i \in 2 .. Len(bs) : bs[i].parent = bs[i - 1].hash

\* validate without the loop of lines 594-606
validate_nolink(start, limit, bs) ==
    IF Len(bs) = 0 THEN "no blocks"
    ELSE IF bs[1].num # start THEN "invalid first"
    ELSE IF bs[Len(bs)].num # start + limit - 1 THEN "invalid last"
    ELSE ""

\* validate without the check of lines 590-593
validate_nolast(start, limit, bs) ==
    IF Len(bs) = 0 THEN "no blocks"
    ELSE IF bs[1].num # start THEN "invalid first"
    ELSE IF ~Linked(bs) THEN "corrupt chain segment"
    ELSE ""

validate(start, limit, bs) ==
    IF Len(bs) = 0 THEN "no blocks"
    ELSE IF bs[1].num # start THEN "invalid first"
    ELSE IF bs[Len(bs)].num # start + limit - 1 THEN "invalid last"
    ELSE IF ~Linked(bs) THEN "corrupt chain segment"
    ELSE ""

Decode(limit, items) ==
    [i \in 1 .. limit |->
        IF i <= Len(items) /\ ~items[i].null
        THEN Block(items[i].num, items[i].hash, items[i].parent)
        ELSE ZeroBlock]

blocks(start, limit, resp) ==
    IF resp.terr THEN Err("requesting blocks")
    ELSE IF \E i \in 1 .. Len(resp.items) : resp.items[i].code # 0
         THEN RpcErr("rpc=eth_getBlockByNumber", resp.items)
    ELSE LET bs == Decode(limit, resp.items)
             e == validate(start, limit, bs)
         IN  IF e = "" THEN Ok(bs) ELSE Err(e)

headers(start, limit, resp) ==
    IF resp.terr THEN Err("requesting headers")
    ELSE IF \E i \in 1 .. Len(resp.items) : resp.items[i].code # 0
         THEN RpcErr("rpc=eth_getBlockByNumber/headers", resp.items)
    ELSE LET bs == Decode(limit, resp.items)
             e == validate(start, limit, bs)
         IN  IF e = "" THEN Ok(bs) ELSE Err(e)

\* The getter Get hands to cache.get
Fetcher(p, resp) ==
    IF args[p].filter.UseBlocks
    THEN blocks(args[p].start, args[p].limit, resp)
    ELSE headers(args[p].start, args[p].limit, resp)

Item(b) == [code |-> 0, null |-> FALSE, num |-> b.num, hash |-> b.hash, parent |-> b.parent]
GoodResp(start, limit) ==
    [terr |-> FALSE, items |-> [i \in 1 .. limit |-> Item(GoodChain(start, limit)[i])]]
FailResp == [terr |-> TRUE, items |-> << >>]

(***************************************************************************)
(* The heap.  A segment nothing points to is dropped (Go's collector): its *)
(* slot returns to NilSeg, and new(segment) takes the lowest free slot.    *)
(***************************************************************************)
Referenced(tabs, held) ==
    UNION {{tabs[c][k] : k \in DOMAIN tabs[c]} : c \in Caches} \cup
    {held[p] : p \in Procs}

Collect(h, tabs, held) ==
    [s \in SegIds |-> IF s \in Referenced(tabs, held) THEN h[s] ELSE NilSeg]

CollectServed(sv, tabs, held) ==
    [s \in SegIds |-> IF s \in Referenced(tabs, held) THEN sv[s] ELSE 0]

NewSeg ==
    CHOOSE s \in SegIds :
        /\ s \notin Referenced(segments, seg)
        /\ \A t \in SegIds : t \notin Referenced(segments, seg) => s <= t

Delete(tab, ks) == [k \in DOMAIN tab \ ks |-> tab[k]]

\* History: one more invocation of the fetcher for key k of cache c
Fetching(c, k) == [hist EXCEPT ![c][k].fetches = Upto(@, 2)]

(***************************************************************************)
(* Client.Get, up to the call of cache.get (lines 409-446, 517-520).       *)
(***************************************************************************)
Get(p, filter, start, limit) ==
    /\ pc[p] = "idle"
    /\ ncalls < MaxCalls
    /\ ncalls' = ncalls + 1
    /\ args' = [args EXCEPT ![p] = [filter |-> filter, start |-> start, limit |-> limit]]
    /\ IF filter.UseBlocks \/ filter.UseHeaders
       THEN LET c == IF filter.UseBlocks THEN "bcache" ELSE "hcache"
                k == Key(start, limit)
                h == hist[c][k]
            IN  /\ loc' = [loc EXCEPT ![p] = << >>]
                /\ IF nocache
                   THEN /\ pc' = [pc EXCEPT ![p] = "fetching"]
                        /\ hist' = [hist EXCEPT ![c][k] =
                                      [h EXCEPT !.calls = Upto(@, maxreads + 1),
                                                !.fetches = Upto(@, 2)]]
                   ELSE /\ pc' = [pc EXCEPT ![p] = "lock"]
                        /\ hist' = [hist EXCEPT ![c][k].calls = Upto(@, maxreads + 1)]
       ELSE /\ loc' = [loc EXCEPT ![p] =
                         [i \in 1 .. limit |-> Block(start + i - 1, 0, 0)]]
            /\ pc' = [pc EXCEPT ![p] = "enrich"]
            /\ hist' = hist
    /\ UNCHANGED << nocache, mu, segments, heap, seg, todo, ret, served, note, pend, tipVars, urlVars, wsVars >>

(***************************************************************************)
(* cache.get (lines 517-549), with pruneMaxRead and pruneSegments.         *)
(***************************************************************************)
\* pruneMaxRead deleting one read early, and one read late
MaxRead_early(s) == heap[s].nreads >= maxreads - 1
MaxRead_late(s) == heap[s].nreads > maxreads

\* Whether pruneMaxRead deletes a segment (line 493)
MaxRead(s) == heap[s].nreads >= maxreads

\* The goroutines other than p that may still lock segment s: they took the
\* pointer in their own table section and have not locked it yet, or hold
\* its mutex while f runs.  Only they change s.nreads or hold s.Mutex.
Contended(p, s) ==
    \E q \in Procs \ {p} : seg[q] = s /\ pc[q] \in {"segLock", "fetching"}

\* c.Lock() (lines 521-524) and pruneMaxRead for the segments no other
\* goroutine can touch while p holds the table: nothing can happen between
\* their iterations that the range could see, in whatever order they come,
\* so they are visited here.  The contended ones are left to pruneMaxRead.
get_Lock(p) ==
    /\ pc[p] = "lock"
    /\ ~mu[CacheOf(p)]
    /\ mu' = [mu EXCEPT ![CacheOf(p)] = TRUE]
    /\ LET c == CacheOf(p)
           free == {k \in DOMAIN segments[c] : ~Contended(p, segments[c][k])}
           tabs == [segments EXCEPT ![c] =
                      Delete(@, {k \in free : MaxRead(segments[c][k])})]
       IN  /\ todo' = [todo EXCEPT ![p] = DOMAIN segments[c] \ free]
           /\ note' = [note EXCEPT ![p] =
                         [rank |-> hist[c][KeyOf(p)].okSince,
                          stale |-> /\ KeyOf(p) \in DOMAIN segments[c]
                                    /\ heap[segments[c][KeyOf(p)]].nreads >= maxreads]]
           /\ hist' = [hist EXCEPT ![c][KeyOf(p)].okSince =
                         IF @ > 0 THEN Upto(@, maxreads + 1) ELSE 0]
           /\ segments' = tabs
           /\ heap' = Collect(heap, tabs, seg)
           /\ served' = CollectServed(served, tabs, seg)
    /\ pc' = [pc EXCEPT ![p] = "pruneMaxRead"]
    /\ UNCHANGED << nocache, args, seg, loc, ret, ncalls, pend, tipVars, urlVars, wsVars >>

\* One iteration of pruneMaxRead's range (lines 491-497): v.Lock() waits for
\* the segment's mutex; the order of a map range is any.
pruneMaxRead(p, k) ==
    /\ pc[p] = "pruneMaxRead"
    /\ k \in todo[p]
    /\ LET c == CacheOf(p)
           s == segments[c][k]
           tabs == IF MaxRead(s)
                   THEN [segments EXCEPT ![c] = Delete(@, {k})]
                   ELSE segments
       IN  /\ ~heap[s].mu
           /\ segments' = tabs
           /\ heap' = Collect(heap, tabs, seg)
           /\ served' = CollectServed(served, tabs, seg)
    /\ todo' = [todo EXCEPT ![p] = @ \ {k}]
    /\ UNCHANGED << nocache, mu, pc, args, seg, loc, ret, ncalls, hist, note, pend, tipVars, urlVars, wsVars >>

\* Lines 526-530: look the key up, insert a new segment when it is missing
get_Lookup(p) ==
    /\ pc[p] = "pruneMaxRead"
    /\ todo[p] = {}
    /\ LET c == CacheOf(p)
           k == KeyOf(p)
       IN  IF k \in DOMAIN segments[c]
           THEN /\ seg' = [seg EXCEPT ![p] = segments[c][k]]
                /\ UNCHANGED segments
           ELSE /\ seg' = [seg EXCEPT ![p] = NewSeg]
                /\ segments' = [segments EXCEPT ![c] =
                                  [x \in DOMAIN @ \cup {k} |->
                                      IF x = k THEN NewSeg ELSE @[x]]]
    /\ pc' = [pc EXCEPT ![p] = "pruneSegments"]
    /\ UNCHANGED << nocache, mu, heap, args, todo, loc, ret, ncalls, hist, served, note, pend, tipVars, urlVars, wsVars >>

\* pruneSegments keeping the size keys of the lowest starts
Evictable_lowest(tab) ==
    IF Cardinality(DOMAIN tab) <= size THEN {{}}
    ELSE {E \in SUBSET DOMAIN tab :
            /\ Cardinality(DOMAIN tab \ E) = size
            /\ \A e \in E, r \in DOMAIN tab \ E : e[1] >= r[1]}

\* What pruneSegments may delete from a table (lines 500-515): nothing up to
\* size keys; else all but size keys, none of them with a higher start than
\* a key that stays (sort.Slice is not stable and the range's order is any,
\* so keys that tie on start may go either way).
Evictable(tab) ==
    IF Cardinality(DOMAIN tab) <= size THEN {{}}
    ELSE {E \in SUBSET DOMAIN tab :
            /\ Cardinality(DOMAIN tab \ E) = size
            /\ \A e \in E, r \in DOMAIN tab \ E : e[1] <= r[1]}

\* cache.get going on to seg.Lock() without c.Unlock()
pruneSegments_held(p) ==
    /\ pc[p] = "pruneSegments"
    /\ \E E \in Evictable(segments[CacheOf(p)]) :
          LET tabs == [segments EXCEPT ![CacheOf(p)] = Delete(@, E)]
          IN  /\ segments' = tabs
              /\ heap' = Collect(heap, tabs, seg)
              /\ served' = CollectServed(served, tabs, seg)
    /\ pc' = [pc EXCEPT ![p] = "segLock"]
    /\ UNCHANGED << nocache, mu, args, seg, todo, loc, ret, ncalls, hist, note, pend, tipVars, urlVars, wsVars >>

\* Lines 531-532: pruneSegments, c.Unlock()
pruneSegments(p) ==
    /\ pc[p] = "pruneSegments"
    /\ \E E \in Evictable(segments[CacheOf(p)]) :
          LET tabs == [segments EXCEPT ![CacheOf(p)] = Delete(@, E)]
          IN  /\ segments' = tabs
              /\ heap' = Collect(heap, tabs, seg)
              /\ served' = CollectServed(served, tabs, seg)
    /\ mu' = [mu EXCEPT ![CacheOf(p)] = FALSE]
    /\ pc' = [pc EXCEPT ![p] = "segLock"]
    /\ UNCHANGED << nocache, args, seg, todo, loc, ret, ncalls, hist, note, pend, tipVars, urlVars, wsVars >>

\* cache.get never taking the branch of line 537
SegDone_never(s) == FALSE

\* cache.get answering from any segment an earlier call has locked
SegDone_tried(s) == heap[s].done \/ heap[s].nreads > 0

\* if seg.done (line 537)
SegDone(s) == heap[s].done

\* Lines 534-541: seg.Lock(), nreads++, the cached answer or the call of f
get_SegLock(p) ==
    /\ pc[p] = "segLock"
    /\ ~heap[seg[p]].mu
    /\ IF SegDone(seg[p])
       THEN /\ heap' = [heap EXCEPT ![seg[p]].nreads = @ + 1]
            /\ served' = [served EXCEPT ![seg[p]] = Upto(@, maxreads + 1)]
            /\ pc' = [pc EXCEPT ![p] = "enrich"]
            /\ hist' = hist
       ELSE /\ heap' = [heap EXCEPT ![seg[p]].nreads = @ + 1, ![seg[p]].mu = TRUE]
            /\ served' = served
            /\ pc' = [pc EXCEPT ![p] = "fetching"]
            /\ hist' = Fetching(CacheOf(p), KeyOf(p))
    /\ UNCHANGED << nocache, mu, segments, args, seg, todo, loc, ret, ncalls, note, pend, tipVars, urlVars, wsVars >>

\* f returns (lines 541-548, or 519 with nocache) and Get goes on (430-437)
get_Fetched(p, resp) ==
    /\ pc[p] = "fetching"
    /\ LET r == Fetcher(p, resp)
           c == CacheOf(p)
           k == KeyOf(p)
       IN  IF r.err # ""
           THEN /\ ret' = [ret EXCEPT ![p] = [err |-> r.err, code |-> r.code]]
                /\ pc' = [pc EXCEPT ![p] = "done"]
                /\ args' = args
                /\ seg' = [seg EXCEPT ![p] = 0]
                /\ loc' = loc
                /\ hist' = [hist EXCEPT ![c][k].failed = TRUE]
                /\ LET h == IF seg[p] = 0 THEN heap
                            ELSE [heap EXCEPT ![seg[p]].mu = FALSE]
                   IN  /\ heap' = Collect(h, segments, seg')
                       /\ served' = CollectServed(served, segments, seg')
           ELSE /\ UNCHANGED << ret, args, seg >>
                /\ pc' = [pc EXCEPT ![p] = "enrich"]
                /\ IF seg[p] = 0
                   THEN /\ loc' = [loc EXCEPT ![p] = r.blocks]
                        /\ UNCHANGED << heap, served, hist >>
                   ELSE /\ loc' = loc
                        /\ heap' = [heap EXCEPT ![seg[p]] =
                                      [@ EXCEPT !.d = r.blocks, !.done = TRUE,
                                                !.mu = FALSE]]
                        /\ served' = [served EXCEPT ![seg[p]] = Upto(@, maxreads + 1)]
                        /\ hist' = [hist EXCEPT ![c][k].okSince = 1]
    /\ UNCHANGED << nocache, mu, segments, todo, ncalls, note, pend, tipVars, urlVars, wsVars >>

(***************************************************************************)
(* Client.Get after the primary (lines 448-467).                           *)
(***************************************************************************)
\* Get's blocks: the segment's d when the slice came out of the cache
BlocksOf(p) == IF seg[p] # 0 THEN heap[seg[p]].d ELSE loc[p]

\* The enricher Get's second switch picks (lines 453-466)
Enricher(f) ==
    IF f.UseReceipts THEN "receipts"
    ELSE IF f.UseLogs THEN "logs"
    ELSE IF f.UseTraces THEN "traces"
    ELSE "none"

\* w: the index of the block being written, 0 when none; k: the group of
\* logs being written; snap: the block as the writer found it; oor, history:
\* an element naming a block outside the window was written
NoPend ==
    [items |-> << >>, groups |-> {}, i |-> 0, w |-> 0, k |-> << >>,
     snap |-> ZeroBlock, oor |-> FALSE]

\* bm (lines 448-451): block number -> &blocks[i], a later block of the
\* same number replacing an earlier one.  The pointer is the index.
bm(bs) ==
    [n \in {bs[i].num : i \in DOMAIN bs} |->
        CHOOSE i \in DOMAIN bs :
            bs[i].num = n /\ \A j \in DOMAIN bs : bs[j].num = n => j <= i]

\* eth.Tx as far as the enrichers write it: Idx, PrecompHash, Logs,
\* TraceActions, and rcpt for the fields receipts copies from one receipt
NewTx(idx) == [idx |-> idx, hash |-> 0, logs |-> << >>, traces |-> << >>, rcpt |-> 0]

\* b.Tx(idx): the block's transaction of that index, added when missing
HasTx(b, idx) == \E j \in DOMAIN b.txs : b.txs[j].idx = idx
Tx(b, idx) == IF HasTx(b, idx) THEN b ELSE [b EXCEPT !.txs = Append(@, NewTx(idx))]
TxPos(b, idx) ==
    CHOOSE j \in DOMAIN b.txs :
        b.txs[j].idx = idx /\ \A i \in 1 .. (j - 1) : b.txs[i].idx # idx

\* *b = v for the block &blocks[i] of Get's slice: the segment's own block
\* when the slice came out of the cache
Store(p, i, v) ==
    IF seg[p] # 0
    THEN /\ heap' = [heap EXCEPT ![seg[p]].d[i] = v]
         /\ loc' = loc
    ELSE /\ loc' = [loc EXCEPT ![p][i] = v]
         /\ heap' = heap

\* The enricher returns an error and Get returns nil, err
Fail(p, e, code) ==
    /\ ret' = [ret EXCEPT ![p] = [err |-> e, code |-> code]]
    /\ pc' = [pc EXCEPT ![p] = "done"]
    /\ pend' = [pend EXCEPT ![p] = NoPend]
    /\ seg' = [seg EXCEPT ![p] = 0]
    /\ loc' = [loc EXCEPT ![p] = << >>]
    /\ heap' = Collect(heap, segments, seg')
    /\ served' = CollectServed(served, segments, seg')

\* The enricher goes on to q with pend n, having written nothing
Goto(p, q, n) ==
    /\ pc' = [pc EXCEPT ![p] = q]
    /\ pend' = [pend EXCEPT ![p] = n]
    /\ UNCHANGED << ret, seg, loc, heap, served >>

\* The enricher wrote block i and goes on to q with pend n
Wrote(p, i, v, q, n) ==
    /\ Store(p, i, v)
    /\ pc' = [pc EXCEPT ![p] = q]
    /\ pend' = [pend EXCEPT ![p] = n]
    /\ UNCHANGED << ret, seg, served >>

(***************************************************************************)
(* The enrichers write into the blocks through bm.  The writes of one      *)
(* iteration (lines 708-727, 820-825, 873-893) are many stores and not one *)
(* step: an iteration is a step that finds the block and a step that       *)
(* writes it.  Two goroutines that hold the same cached slice and write    *)
(* one of its blocks at the same time race; what the block holds then is   *)
(* either writer's stores on top of the other's, or on top of the block as *)
(* the writer found it, the other's stores lost.                           *)
(***************************************************************************)
\* The element's blockNumber is inside [start, start+limit)
InWindow(p, bn) == args[p].start <= bn /\ bn < args[p].start + args[p].limit

\* The enricher found block i and is about to write it
Found(p, i, n) ==
    Goto(p, n, [pend[p] EXCEPT !.w = i, !.snap = BlocksOf(p)[i]])

\* The values of block i the stores of goroutine p may land on
Targets(p) == {BlocksOf(p)[pend[p].w], pend[p].snap}

\* pend after the writes of one iteration; out: whether an element that was
\* written names a block outside the window
Written(n, out) ==
    [n EXCEPT !.w = 0, !.k = << >>, !.snap = ZeroBlock, !.oor = @ \/ out]

(***************************************************************************)
(* Client.receipts (lines 671-730).  A response is [terr, items], an item  *)
(* [code, result], a receipt [bn, bh, tx, th, id, logs].                   *)
(***************************************************************************)
WriteReceipt(b, r) ==
    LET b1 == Tx(b, r.tx)
        j == TxPos(b1, r.tx)
    IN  [b1 EXCEPT !.txs[j].hash = r.th, !.txs[j].rcpt = r.id, !.txs[j].logs = r.logs]

RECURSIVE WriteReceipts(_, _)
WriteReceipts(b, rs) ==
    IF rs = << >> THEN b ELSE WriteReceipts(WriteReceipt(b, Head(rs)), Tail(rs))

\* Lines 673-693: the batch and the scan for an rpc error
receipts_Resp(p, resp) ==
    /\ pc[p] = "enrich"
    /\ Enricher(args[p].filter) = "receipts"
    /\ IF resp.terr THEN Fail(p, "requesting receipts", 0)
       ELSE IF \E i \in DOMAIN resp.items : resp.items[i].code # 0
            THEN Fail(p, "rpc=eth_getBlockReceipts", FirstCode(resp.items))
       ELSE Goto(p, "receipts", [NoPend EXCEPT !.items = resp.items])
    /\ UNCHANGED << nocache, mu, segments, args, todo, ncalls, hist, note, tipVars, urlVars, wsVars >>

\* Lines 694-707 of one iteration of the loop: the range check on the first
\* receipt of the result and the lookup in bm
receipts_Find(p) ==
    /\ pc[p] = "receipts"
    /\ pend[p].items # << >>
    /\ LET res == Head(pend[p].items).result
           bs == BlocksOf(p)
           start == args[p].start
           limit == args[p].limit
       IN  IF res = << >> THEN Goto(p, "receipts", [pend[p] EXCEPT !.items = Tail(@)])
           ELSE IF res[1].bn < start \/ res[1].bn > start + limit
                THEN Fail(p, "eth_getBlockReceipts out of range block", 0)
           ELSE IF res[1].bn \notin DOMAIN bm(bs) THEN Fail(p, "block not found", 0)
           ELSE Found(p, bm(bs)[res[1].bn], "receiptsWrite")
    /\ UNCHANGED << nocache, mu, segments, args, todo, ncalls, hist, note, tipVars, urlVars, wsVars >>

\* Lines 708-727: the hash of the first receipt and every receipt of the
\* result go into the block
receipts_Write(p) ==
    /\ pc[p] = "receiptsWrite"
    /\ LET res == Head(pend[p].items).result
       IN  \E b \in Targets(p) :
              Wrote(p, pend[p].w, WriteReceipts([b EXCEPT !.hash = res[1].bh], res),
                    "receipts",
                    Written([pend[p] EXCEPT !.items = Tail(@)],
                            \E j \in DOMAIN res : ~InWindow(p, res[j].bn)))
    /\ UNCHANGED << nocache, mu, segments, args, todo, ncalls, hist, note, tipVars, urlVars, wsVars >>

(***************************************************************************)
(* Client.logs (lines 746-833).  A response is [terr, herr, lerr, hnil,    *)
(* logs]: herr and lerr the error codes of the header and of the logs      *)
(* answers, hnil a null header, a log [bn, tx, bh, th, id].                *)
(***************************************************************************)
\* tx.Logs.Add for each log of the group
WriteLogs(b, tx, ls) ==
    LET b1 == Tx([b EXCEPT !.hash = ls[1].bh], tx)
        j == TxPos(b1, tx)
    IN  [b1 EXCEPT !.txs[j].hash = ls[1].th,
                   !.txs[j].logs = @ \o [i \in DOMAIN ls |-> ls[i].id]]

\* The error lines 788-795 return for the two answers of the batch: its tag
\* and the code of the Error it wraps
logs_Error(resp) ==
    IF resp.herr # 0
    THEN [err |-> "rpc=eth_getLogs/eth_getBlockByNumber", code |-> resp.lerr]
    ELSE IF resp.lerr # 0 THEN [err |-> "rpc=eth_getLogs", code |-> resp.lerr]
    ELSE IF resp.hnil THEN [err |-> "eth backend missing logs for block", code |-> 0]
    ELSE [err |-> "", code |-> 0]

\* Lines 767-812: the batch, its errors, the range check and the grouping
logs_Resp(p, resp) ==
    /\ pc[p] = "enrich"
    /\ Enricher(args[p].filter) = "logs"
    /\ IF resp.terr THEN Fail(p, "making logs request", 0)
       ELSE IF logs_Error(resp).err # ""
            THEN Fail(p, logs_Error(resp).err, logs_Error(resp).code)
       ELSE IF \E i \in DOMAIN resp.logs : ~InWindow(p, resp.logs[i].bn)
            THEN Fail(p, "eth_getLogs out of range block", 0)
       ELSE Goto(p, "logs",
                 [NoPend EXCEPT !.items = resp.logs,
                                !.groups = {Key(resp.logs[i].bn, resp.logs[i].tx) :
                                              i \in DOMAIN resp.logs}])
    /\ UNCHANGED << nocache, mu, segments, args, todo, ncalls, hist, note, tipVars, urlVars, wsVars >>

\* eth.Block's mutex, which only logs takes: block i of goroutine p's slice
\* is locked when another goroutine that holds the slice is between b.Lock()
\* and b.Unlock()
BlockLocked(p, i) ==
    /\ seg[p] # 0
    /\ \E q \in Procs \ {p} :
          seg[q] = seg[p] /\ pc[q] = "logsWrite" /\ pend[q].w = i

\* Lines 814-819 of one iteration of the range, the groups in any order:
\* the lookup in bm and b.Lock()
logs_Lock(p, k) ==
    /\ pc[p] = "logs"
    /\ k \in pend[p].groups
    /\ LET bs == BlocksOf(p)
       IN  IF k[1] \notin DOMAIN bm(bs) THEN Fail(p, "block not found", 0)
           ELSE /\ ~BlockLocked(p, bm(bs)[k[1]])
                /\ Goto(p, "logsWrite",
                        [pend[p] EXCEPT !.w = bm(bs)[k[1]], !.k = k,
                                        !.snap = bs[bm(bs)[k[1]]]])
    /\ UNCHANGED << nocache, mu, segments, args, todo, ncalls, hist, note, tipVars, urlVars, wsVars >>

\* Lines 820-826: the writes and b.Unlock()
logs_Write(p) ==
    /\ pc[p] = "logsWrite"
    /\ LET k == pend[p].k
           ls == SelectSeq(pend[p].items, LAMBDA l : Key(l.bn, l.tx) = k)
       IN  \E b \in Targets(p) :
              Wrote(p, pend[p].w, WriteLogs(b, k[2], ls), "logs",
                    Written([pend[p] EXCEPT !.groups = @ \ {k}],
                            \E j \in DOMAIN ls : ~InWindow(p, ls[j].bn)))
    /\ UNCHANGED << nocache, mu, segments, args, todo, ncalls, hist, note, tipVars, urlVars, wsVars >>

(***************************************************************************)
(* Client.traces (lines 848-896).  A response is [terr, code, result], a   *)
(* trace [bn, bh, tx, th, act].                                            *)
(***************************************************************************)
\* The orders a range over a map with the keys S may take
Orders(S) ==
    {o \in [1 .. Cardinality(S) -> S] : \A i, j \in DOMAIN o : o[i] = o[j] => i = j}

\* Lines 885-892 for the transaction tx
WriteTrace(b, tx, ts) ==
    LET b1 == Tx(b, tx)
        j == TxPos(b1, tx)
    IN  [b1 EXCEPT !.txs[j].hash = ts[1].th,
                   !.txs[j].traces = [i \in DOMAIN ts |-> [act |-> ts[i].act, idx |-> i - 1]]]

RECURSIVE WriteTraces(_, _, _)
WriteTraces(b, order, result) ==
    IF order = << >> THEN b
    ELSE WriteTraces(WriteTrace(b, Head(order),
                                SelectSeq(result, LAMBDA t : t.tx = Head(order))),
                     Tail(order), result)

\* Lines 851-872 of one iteration of the loop: the request for block
\* start+i, its answer, and the lookup of the first trace's block in bm
traces_Resp(p, resp) ==
    /\ \/ pc[p] = "traces"
       \/ pc[p] = "enrich" /\ Enricher(args[p].filter) = "traces"
    /\ pend[p].i < args[p].limit
    /\ LET bs == BlocksOf(p)
           res == resp.result
       IN  IF resp.terr THEN Fail(p, "requesting traces", 0)
           ELSE IF resp.code # 0 THEN Fail(p, "rpc=trace_block", resp.code)
           ELSE IF res = << >> THEN Fail(p, "no rpc error but empty result", 0)
           ELSE IF res[1].bn \notin DOMAIN bm(bs)
                THEN Fail(p, "missing block in block map", 0)
           ELSE Goto(p, "tracesWrite",
                     [pend[p] EXCEPT !.items = res, !.w = bm(bs)[res[1].bn],
                                     !.snap = bs[bm(bs)[res[1].bn]]])
    /\ UNCHANGED << nocache, mu, segments, args, todo, ncalls, hist, note, tipVars, urlVars, wsVars >>

\* Lines 873-893: the hash of the first trace and every trace of the result
\* go into the block, the transactions in the order of the map's range
traces_Write(p) ==
    /\ pc[p] = "tracesWrite"
    /\ LET res == pend[p].items
       IN  \E b \in Targets(p) :
           \E order \in Orders({res[j].tx : j \in DOMAIN res}) :
              Wrote(p, pend[p].w, WriteTraces([b EXCEPT !.hash = res[1].bh], order, res),
                    "traces",
                    Written([pend[p] EXCEPT !.items = << >>, !.i = @ + 1],
                            \E j \in DOMAIN res : ~InWindow(p, res[j].bn)))
    /\ UNCHANGED << nocache, mu, segments, args, todo, ncalls, hist, note, tipVars, urlVars, wsVars >>

\* return blocks, nil (line 467): no enricher, or the enricher returned nil
Get_Return(p) ==
    /\ \/ pc[p] = "enrich" /\ Enricher(args[p].filter) = "none"
       \/ pc[p] = "receipts" /\ pend[p].items = << >>
       \/ pc[p] = "logs" /\ pend[p].groups = {}
       \/ /\ pc[p] = "traces" \/ (pc[p] = "enrich" /\ Enricher(args[p].filter) = "traces")
          /\ pend[p].i >= args[p].limit
    /\ ret' = [ret EXCEPT ![p] = Nil]
    /\ pc' = [pc EXCEPT ![p] = "done"]
    /\ pend' = [pend EXCEPT ![p] = NoPend]
    /\ UNCHANGED << nocache, mu, segments, heap, args, seg, todo, loc, ncalls, hist,
                    served, note, tipVars, urlVars, wsVars >>

\* The caller is done with what Get returned: the slice, when Get returned
\* one, was the caller's to read until here.
Release(p) ==
    /\ pc[p] = "done"
    /\ ret' = [ret EXCEPT ![p] = NoRet]
    /\ pc' = [pc EXCEPT ![p] = "idle"]
    /\ args' = [args EXCEPT ![p] = NoArgs]
    /\ seg' = [seg EXCEPT ![p] = 0]
    /\ loc' = [loc EXCEPT ![p] = << >>]
    /\ heap' = Collect(heap, segments, seg')
    /\ served' = CollectServed(served, segments, seg')
    /\ note' = [note EXCEPT ![p] = NoNote]
    /\ UNCHANGED << nocache, mu, segments, todo, ncalls, hist, pend, tipVars, urlVars, wsVars >>

(***************************************************************************)
(* TipCache: type NumHash (lines 198-269).  Its methods hold nh.Mutex from *)
(* the first line to the last, so each is one step.  An error is a string, *)
(* "" for nil; a hash is a sequence of bytes.                              *)
(***************************************************************************)
\* The 32-byte hash upstream reports for head n
Bytes32(n) == [i \in 1 .. HashLen |-> n]

\* h := make([]byte, 32); copy(h, nh.Hash) (lines 266-267)
Copy32(h) == [i \in 1 .. HashLen |-> IF i <= Len(h) THEN h[i] ELSE 0]

\* sync.Once{}: done and the mutex m of doSlow
NewOnce == [done |-> FALSE, m |-> FALSE]
NewNumHash == [err |-> "", once |-> NewOnce, nreads |-> 0, Num |-> 0, Hash |-> << >>]

error(nh, e) == [nh EXCEPT !.nreads = 0, !.err = e]

\* update replacing the pair when the number is the cached one
update_dup(nh, n, h) ==
    IF n < nh.Num THEN nh
    ELSE [nh EXCEPT !.nreads = 0, !.Num = n, !.Hash = h]

update(nh, n, h) ==
    IF n <= nh.Num THEN nh
    ELSE [nh EXCEPT !.nreads = 0, !.Num = n, !.Hash = h]

\* get missing when Num = n, and get expiring one read late
Miss_strict(nh, n) == n = 0 \/ nh.Num <= n
Expired_late(nh) == nh.nreads > maxreads

\* get without the n == 0 of line 242
Miss_nozero(nh, n) == nh.Num < n

\* Line 242
Miss(nh, n) == n = 0 \/ nh.Num < n
\* Line 247
Expired(nh) == nh.nreads >= maxreads

\* get: the NumHash it leaves and the three values it returns
get(nh, n) ==
    IF nh.err # ""
    THEN [nh |-> [nh EXCEPT !.err = "", !.once = NewOnce],
          n |-> 0, h |-> << >>, ok |-> FALSE]
    ELSE IF Miss(nh, n)
    THEN [nh |-> nh, n |-> 0, h |-> << >>, ok |-> FALSE]
    ELSE IF Expired(nh)
    THEN [nh |-> [nh EXCEPT !.nreads = 0, !.Num = 0, !.Hash = << >>],
          n |-> 0, h |-> << >>, ok |-> FALSE]
    ELSE [nh |-> [nh EXCEPT !.nreads = @ + 1],
          n |-> nh.Num, h |-> Copy32(nh.Hash), ok |-> TRUE]

\* History: the hits since nreads was last set to 0
Hits(old, new, ok) ==
    IF ok THEN Upto(hits, maxreads + 1)
    ELSE IF new.nreads = 0 /\ new # old THEN 0
    ELSE hits

(***************************************************************************)
(* Client.Latest (lines 348-383) and the refreshers wsListen (271-307) and *)
(* httpPoll (309-337).  once.Do is sync.Once's: a load of done, and when   *)
(* it is 0 doSlow: m.Lock(), f() and done = 1 if done is still 0,          *)
(* m.Unlock().  get's nh.once = sync.Once{} writes done and m with no      *)
(* regard for a goroutine inside doSlow; unlocking a mutex that is not     *)
(* locked is a fatal error of the runtime.                                 *)
(***************************************************************************)
NoLret == [n |-> 0, h |-> << >>, err |-> "none"]

\* History: no refresher is alive, the failure of the last one is pending
\* and no other goroutine is in Latest
AfterFailure(p) ==
    /\ running = 0
    /\ lcache.err # ""
    /\ \A q \in Callers \ {p} : lpc[q] = "idle"

\* A goroutine calls Latest(n), the max-th call of the behaviour at most;
\* first is what the history notes of the call in owes
LatestWithin(p, n, max, first) ==
    /\ ~fatal
    /\ lpc[p] = "idle"
    /\ nlatest < max
    /\ nlatest' = nlatest + 1
    /\ ln' = [ln EXCEPT ![p] = n]
    /\ lpc' = [lpc EXCEPT ![p] = "once"]
    /\ owes' = [owes EXCEPT ![p] = first]
    /\ UNCHANGED << lcache, running, fatal, lret, hits, expired, getVars, urlVars, wsVars >>

Latest(p, n) == LatestWithin(p, n, MaxCalls, FALSE)

\* c.lcache.once.Do: done is set, or doSlow takes m
Latest_Once(p) ==
    /\ ~fatal
    /\ lpc[p] = "once"
    /\ IF lcache.once.done
       THEN /\ lpc' = [lpc EXCEPT ![p] = "get"]
            /\ lcache' = lcache
       ELSE /\ ~lcache.once.m
            /\ lcache' = [lcache EXCEPT !.once.m = TRUE]
            /\ lpc' = [lpc EXCEPT ![p] = "doSlow"]
    /\ UNCHANGED << running, fatal, ln, lret, nlatest, hits, expired, owes, getVars, urlVars, wsVars >>

\* doSlow once it has m: the load of done, and when it is 0 f(), which is
\* go c.wsListen or go c.httpPoll (lines 350-357)
Latest_DoSlow(p) ==
    /\ ~fatal
    /\ lpc[p] = "doSlow"
    /\ IF lcache.once.done
       THEN /\ lpc' = [lpc EXCEPT ![p] = "unlock"]
            /\ UNCHANGED << running, owes >>
       ELSE /\ running' = running + 1
            /\ owes' = [owes EXCEPT ![p] = FALSE]
            /\ lpc' = [lpc EXCEPT ![p] = "store"]
    /\ UNCHANGED << lcache, fatal, ln, lret, nlatest, hits, expired, getVars, urlVars, wsVars >>

\* doSlow's deferred done.Store(1), after f has returned
Latest_Store(p) ==
    /\ ~fatal
    /\ lpc[p] = "store"
    /\ lcache' = [lcache EXCEPT !.once.done = TRUE]
    /\ lpc' = [lpc EXCEPT ![p] = "unlock"]
    /\ UNCHANGED << running, fatal, ln, lret, nlatest, hits, expired, owes, getVars, urlVars, wsVars >>

\* doSlow's m.Unlock()
Latest_Unlock(p) ==
    /\ ~fatal
    /\ lpc[p] = "unlock"
    /\ IF lcache.once.m
       THEN /\ lcache' = [lcache EXCEPT !.once.m = FALSE]
            /\ lpc' = [lpc EXCEPT ![p] = "get"]
            /\ fatal' = fatal
       ELSE /\ fatal' = TRUE
            /\ UNCHANGED << lcache, lpc >>
    /\ UNCHANGED << running, ln, lret, nlatest, hits, expired, owes, getVars, urlVars, wsVars >>

\* c.lcache.get(ctx, n) and the return of a hit (lines 359-361)
Latest_Get(p) ==
    /\ ~fatal
    /\ lpc[p] = "get"
    /\ LET r == get(lcache, ln[p])
       IN  /\ lcache' = r.nh
           /\ hits' = Hits(lcache, r.nh, r.ok)
           /\ expired' = (lcache.Num # 0 /\ r.nh.Num = 0)
           /\ IF r.ok
              THEN /\ lret' = [lret EXCEPT ![p] = [n |-> r.n, h |-> r.h, err |-> ""]]
                   /\ lpc' = [lpc EXCEPT ![p] = "done"]
              ELSE /\ lret' = lret
                   /\ lpc' = [lpc EXCEPT ![p] = "rpc"]
    /\ UNCHANGED << running, fatal, ln, nlatest, owes, getVars, urlVars, wsVars >>

\* The request for the latest header (lines 363-382).  A response is
\* [terr, code, num, hash].
Latest_Rpc(p, resp) ==
    /\ ~fatal
    /\ lpc[p] = "rpc"
    /\ lpc' = [lpc EXCEPT ![p] = "done"]
    /\ IF resp.terr
       THEN /\ lret' = [lret EXCEPT ![p] = [n |-> 0, h |-> << >>,
                                            err |-> "unable request latest"]]
            /\ UNCHANGED << lcache, hits >>
       ELSE IF resp.code # 0
       THEN /\ lret' = [lret EXCEPT ![p] = [n |-> 0, h |-> << >>,
                                            err |-> "rpc=eth_getBlockByNumber/latest"]]
            /\ UNCHANGED << lcache, hits >>
       ELSE /\ lret' = [lret EXCEPT ![p] = [n |-> resp.num, h |-> resp.hash, err |-> ""]]
            /\ lcache' = update(lcache, resp.num, resp.hash)
            /\ hits' = Hits(lcache, lcache', FALSE)
    /\ UNCHANGED << running, fatal, ln, nlatest, expired, owes, getVars, urlVars, wsVars >>

\* The caller is done with what Latest returned
Latest_Release(p) ==
    /\ ~fatal
    /\ lpc[p] = "done"
    /\ lpc' = [lpc EXCEPT ![p] = "idle"]
    /\ lret' = [lret EXCEPT ![p] = NoLret]
    /\ ln' = [ln EXCEPT ![p] = 0]
    /\ owes' = [owes EXCEPT ![p] = FALSE]
    /\ UNCHANGED << lcache, running, fatal, nlatest, hits, expired, getVars, urlVars, wsVars >>

\* A refresher got a head: c.lcache.update (lines 305, 335)
Refresher_Update(resp) ==
    /\ ~fatal
    /\ running > 0
    /\ lcache' = update(lcache, resp.num, resp.hash)
    /\ hits' = Hits(lcache, lcache', FALSE)
    /\ UNCHANGED << running, fatal, lpc, ln, lret, nlatest, expired, owes, getVars, urlVars, wsVars >>

\* A refresher failed: c.lcache.error and return (lines 277, 287, 298, 323,
\* 328)
Refresher_Error ==
    /\ ~fatal
    /\ running > 0
    /\ running' = running - 1
    /\ lcache' = error(lcache, "refresher")
    /\ hits' = Hits(lcache, lcache', FALSE)
    /\ UNCHANGED << fatal, lpc, ln, lret, nlatest, expired, owes, getVars, urlVars, wsVars >>

(***************************************************************************)
(* Client.NextURL (lines 104-108).  atomic.AddUint64 is one step; the read *)
(* of c.reqCounter on the next line is a plain read, a second step that    *)
(* sees the counter as it is by then.  The counter is a uint64 that starts *)
(* at 0 and the calls of a behaviour are few, so it does not wrap here.    *)
(***************************************************************************)
\* atomic.AddUint64(&c.reqCounter, 1) (line 105)
NextURL(p) ==
    /\ upc[p] = "idle"
    /\ nnext < MaxNext
    /\ nnext' = nnext + 1
    /\ reqCounter' = reqCounter + 1
    /\ upc' = [upc EXCEPT ![p] = "read"]
    /\ UNCHANGED << picked, getVars, tipVars, wsVars >>

\* next := c.reqCounter % uint64(len(c.urls)); return c.urls[next]
\* (lines 106-107)
NextURL_Read(p) ==
    /\ upc[p] = "read"
    /\ LET next == reqCounter % NumURLs
       IN  picked' = [picked EXCEPT ![next] = @ + 1]
    /\ upc' = [upc EXCEPT ![p] = "idle"]
    /\ UNCHANGED << reqCounter, nnext, getVars, tipVars, wsVars >>

(***************************************************************************)
(* The RangeCache specification: Get(UseBlocks) calls on a caching client  *)
(* whose bcache is empty (the state New leaves) or warm (the state after   *)
(* one Get for each key of WarmKeys has fetched and returned).             *)
(***************************************************************************)
WarmTable(W) ==
    [k \in W |-> k[1] - 1]

WarmHeap(W) ==
    [s \in SegIds |->
        IF \E k \in W : WarmTable(W)[k] = s
        THEN LET k == CHOOSE k \in W : WarmTable(W)[k] = s
             IN  [mu |-> FALSE, nreads |-> 1, done |-> TRUE, d |-> GoodChain(k[1], k[2])]
        ELSE NilSeg]

InitWith(nc, W) ==
    /\ nocache = nc
    /\ mu = [c \in Caches |-> FALSE]
    /\ segments = [c \in Caches |-> IF c = "bcache" THEN WarmTable(W) ELSE WarmTable({})]
    /\ heap = WarmHeap(W)
    /\ pc = [p \in Procs |-> "idle"]
    /\ args = [p \in Procs |-> NoArgs]
    /\ seg = [p \in Procs |-> 0]
    /\ todo = [p \in Procs |-> {}]
    /\ loc = [p \in Procs |-> << >>]
    /\ ret = [p \in Procs |-> NoRet]
    /\ ncalls = 0
    /\ hist = [c \in Caches |-> [k \in Keys |->
                  IF c = "bcache" /\ k \in W
                  THEN [calls |-> 0, fetches |-> 0, failed |-> FALSE, okSince |-> 1]
                  ELSE NoHist]]
    /\ served = [s \in SegIds |-> IF WarmHeap(W)[s].done THEN 1 ELSE 0]
    /\ note = [p \in Procs |-> NoNote]
    /\ pend = [p \in Procs |-> NoPend]

\* The TipCache New leaves: a zero NumHash, no refresher
\* No goroutine in Latest
InitLatest ==
    /\ fatal = FALSE
    /\ lpc = [p \in Callers |-> "idle"]
    /\ ln = [p \in Callers |-> 0]
    /\ lret = [p \in Callers |-> NoLret]
    /\ owes = [p \in Callers |-> FALSE]
    /\ nlatest = 0
    /\ expired = FALSE

\* The endpoint counter New leaves, no goroutine in NextURL
\* No wsListen yet
InitWs ==
    /\ wpc = "none"
    /\ elapsed = 0
    /\ broken = FALSE
    /\ nlisten = 0

InitURL ==
    /\ reqCounter = 0
    /\ upc = [p \in Callers |-> "idle"]
    /\ picked = [u \in 0 .. (NumURLs - 1) |-> 0]
    /\ nnext = 0

InitTipVars ==
    /\ InitLatest
    /\ InitURL
    /\ InitWs
    /\ lcache = NewNumHash
    /\ running = 0
    /\ hits = 0

InitCache == InitTipVars /\ \E W \in {{}, WarmKeys} : InitWith(FALSE, W)

OnlyBlocks == Filter(TRUE, FALSE, FALSE, FALSE, FALSE)

NextCache ==
    \E p \in Procs :
        \/ \E k \in CacheKeys : Get(p, OnlyBlocks, k[1], k[2])
        \/ get_Lock(p)
        \/ \E k \in Keys : pruneMaxRead(p, k)
        \/ get_Lookup(p)
        \/ pruneSegments(p)
        \/ get_SegLock(p)
        \/ \E resp \in {GoodResp(args[p].start, args[p].limit), FailResp} :
              get_Fetched(p, resp)
        \/ Get_Return(p)
        \/ Release(p)

SpecCache == InitCache /\ [][NextCache]_vars

(***************************************************************************)
(* Properties of the RangeCache, checked under SpecCache.                  *)
(***************************************************************************)
Cached(c, k) == k \in DOMAIN segments[c] /\ heap[segments[c][k]].done
InGet(p) == pc[p] \in {"lock", "pruneMaxRead", "pruneSegments", "segLock", "fetching"}

\* C2: single-flight.  Get calls for one (start, limit) on a caching client
\* invoke the primary fetcher at most once in total.  Stated for the calls
\* the reuse bound covers: no invocation for the key has failed and at most
\* maxreads calls for it were made.
C2_SingleFlight ==
    \A c \in Caches, k \in Keys :
        (~hist[c][k].failed /\ hist[c][k].calls <= maxreads)
            => hist[c][k].fetches <= 1

\* C3: no two invocations of the fetcher for one (start, limit) of one cache
\* are in progress at the same time.
C3_OneFetchAtATime ==
    \A p, q \in Procs :
        (p # q /\ pc[p] = "fetching" /\ pc[q] = "fetching")
            => ~(CacheOf(p) = CacheOf(q) /\ KeyOf(p) = KeyOf(q))

\* C4 as claimed: after a successful fetch for a key, none of the next
\* maxreads-1 get calls for that key invokes the fetcher.
C4_NextReadsHit ==
    \A p \in Procs :
        pc[p] = "fetching" => note[p].rank \notin 1 .. (maxreads - 1)

\* C4 as amended: a get call that finds the key's segment in the table with
\* done set returns the segment's stored blocks and never invokes the
\* fetcher; and a done segment stays in the table until pruneMaxRead visits
\* it with nreads >= maxreads or pruneSegments evicts it from a table of
\* more than size segments.
C4_CachedWhileInTable ==
    /\ [](\A p \in Procs :
            (pc[p] = "fetching" /\ seg[p] # 0) => ~heap[seg[p]].done)
    /\ [][\A p \in Procs :
            (pc[p] = "pruneMaxRead" /\ pc'[p] = "pruneSegments"
                /\ Cached(CacheOf(p), KeyOf(p)))
            => seg'[p] = segments[CacheOf(p)][KeyOf(p)]]_vars
    /\ [][\A p \in Procs :
            (pc[p] = "segLock" /\ pc'[p] # "segLock" /\ heap[seg[p]].done)
            => /\ pc'[p] = "enrich"
               /\ BlocksOf(p)' = heap[seg[p]].d
               /\ hist' = hist]_vars
    /\ [][\A c \in Caches : \A k \in DOMAIN segments[c] :
            (Cached(c, k)
                /\ ~(k \in DOMAIN segments'[c] /\ segments'[c][k] = segments[c][k]))
            => \/ heap[segments[c][k]].nreads >= maxreads
               \/ Cardinality(DOMAIN segments[c]) > size]_vars

\* C4's case: a call begun after the key's fetch succeeded has the cached
\* blocks in hand, and the fetcher was not invoked for it.
C4_Witness ==
    \E p \in Procs :
        /\ pc[p] = "enrich"
        /\ note[p].rank >= 1
        /\ seg[p] # 0
        /\ heap[seg[p]].done
        /\ hist[CacheOf(p)][KeyOf(p)].fetches = 0
        /\ hist[CacheOf(p)][KeyOf(p)].calls = 1

C6_SegmentCap ==
    /\ [](\A c \in Caches : ~mu[c] => Cardinality(DOMAIN segments[c]) <= size)
    /\ [][\A p \in Procs :
            (pc[p] = "pruneSegments" /\ pc'[p] = "segLock")
            => \A e \in DOMAIN segments[CacheOf(p)] \ DOMAIN segments'[CacheOf(p)] :
                  \A r \in DOMAIN segments'[CacheOf(p)] : e[1] <= r[1]]_vars

\* C6's case: a goroutine left the table section with a segment that is not
\* in the table of size segments: the overflow its insert made evicted it.
C6_Witness ==
    \E p \in Procs :
        /\ pc[p] = "segLock"
        /\ ~mu[CacheOf(p)]
        /\ Cardinality(DOMAIN segments[CacheOf(p)]) = size
        /\ \A k \in DOMAIN segments[CacheOf(p)] : segments[CacheOf(p)][k] # seg[p]
        /\ \E k \in DOMAIN segments[CacheOf(p)] : k[1] = KeyOf(p)[1]

\* C18: when the fetcher fails inside cache.get the call returns the error
\* and leaves the segment not done, with no blocks and with the nreads that
\* counted the call; a segment that is not done holds no blocks; a call
\* that locks a segment that is not done counts itself and invokes the
\* fetcher; and a call that returns blocks without invoking the fetcher
\* returns the limit blocks of a segment that is done.
C18_FailedFetchRetried ==
    /\ [][\A p \in Procs :
            (pc[p] = "fetching" /\ pc'[p] = "done")
            => /\ ret'[p].err # ""
               /\ LET s == seg[p]
                  IN  /\ ~heap'[s].done
                      /\ heap'[s].d = << >>
                      /\ s \in Referenced(segments', seg')
                            => heap'[s] = [heap[s] EXCEPT !.mu = FALSE]]_vars
    /\ [](\A s \in SegIds : ~heap[s].done => heap[s].d = << >>)
    /\ [][\A p \in Procs :
            (pc[p] = "segLock" /\ pc'[p] # "segLock" /\ ~heap[seg[p]].done)
            => /\ pc'[p] = "fetching"
               /\ heap'[seg[p]].nreads = heap[seg[p]].nreads + 1]_vars
    /\ [][\A p \in Procs :
            (pc[p] = "segLock" /\ pc'[p] = "enrich")
            => /\ heap[seg[p]].done
               /\ BlocksOf(p)' = heap[seg[p]].d
               /\ Len(BlocksOf(p)') = args[p].limit]_vars

\* C18's case: a call is inside the fetcher for a segment that an earlier
\* call, whose fetcher failed, left not done and counted in nreads
C18_Witness ==
    \E p \in Procs :
        /\ pc[p] = "fetching"
        /\ hist[CacheOf(p)][KeyOf(p)].failed
        /\ ~heap[seg[p]].done
        /\ heap[seg[p]].d = << >>
        /\ heap[seg[p]].nreads = 2

\* A goroutine is inside pruneMaxRead, the table's lock held, and every
\* segment its range has yet to visit is locked by a goroutine whose fetcher
\* is running: it waits in v.Lock() (line 492) for a fetch to finish.
WaitsForFetch(p) ==
    /\ pc[p] = "pruneMaxRead"
    /\ mu[CacheOf(p)]
    /\ todo[p] # {}
    /\ \A k \in todo[p] :
          /\ heap[segments[CacheOf(p)][k]].mu
          /\ \E q \in Procs \ {p} :
                pc[q] = "fetching" /\ seg[q] = segments[CacheOf(p)][k]

\* C16: no goroutine that holds the table's lock waits for an invocation of
\* the fetcher to finish.
C16_NoWaitUnderTableLock == \A p \in Procs : ~WaitsForFetch(p)

(***************************************************************************)
(* The Get specification: Get calls for [1, 3) with every primary and      *)
(* every enricher, on a client New leaves, caching or not, against an      *)
(* upstream that answers well, with another chain, badly or not at all.    *)
(***************************************************************************)
Filters ==
    {Filter(TRUE, FALSE, FALSE, FALSE, FALSE), Filter(TRUE, FALSE, FALSE, TRUE, FALSE),
     Filter(FALSE, FALSE, TRUE, FALSE, FALSE), Filter(FALSE, FALSE, FALSE, FALSE, TRUE)}

\* Another chain over the same numbers, linked as well
ForkChain(start, limit) ==
    [i \in 1 .. limit |->
        Block(start + i - 1, AltHash(start + i - 1), AltHash(start + i - 2))]
\* The canonical blocks, the last one with the other chain's parent
BadLinkChain(start, limit) ==
    [i \in 1 .. limit |->
        IF i = limit /\ i > 1
        THEN Block(start + i - 1, Hash(start + i - 1), AltHash(start + i - 2))
        ELSE GoodChain(start, limit)[i]]
RespOf(bs) == [terr |-> FALSE, items |-> [i \in DOMAIN bs |-> Item(bs[i])]]

PrimaryResps(start, limit) ==
    {GoodResp(start, limit), RespOf(ForkChain(start, limit)),
     RespOf(BadLinkChain(start, limit)), FailResp}

\* The hash of the transaction tx of block bn
TxHash(bn, tx) == 100 + 10 * bn + tx

Receipt(bn, bh, tx) ==
    [bn |-> bn, bh |-> bh, tx |-> tx, th |-> TxHash(bn, tx), id |-> 1, logs |-> << 7 >>]
ReceiptsOk(rs) == [terr |-> FALSE, items |-> [i \in DOMAIN rs |-> [code |-> 0, result |-> rs[i]]]]
ReceiptsResps(start, limit) ==
    {ReceiptsOk([i \in 1 .. limit |-> << Receipt(start + i - 1, Hash(start + i - 1), 0) >>]),
     ReceiptsOk([i \in 1 .. limit |->
                   IF i = 1 THEN << Receipt(start, AltHash(start), 0) >> ELSE << >>]),
     ReceiptsOk([i \in 1 .. limit |-> << Receipt(start + limit + i - 1, Hash(start), 0) >>]),
     [terr |-> TRUE, items |-> << >>],
     [terr |-> FALSE, items |-> << [code |-> 1, result |-> << >>] >>]}

Log(bn, bh, tx, id) == [bn |-> bn, bh |-> bh, tx |-> tx, th |-> TxHash(bn, tx), id |-> id]
LogsOk(ls) == [terr |-> FALSE, herr |-> 0, lerr |-> 0, hnil |-> FALSE, logs |-> ls]
LogsResps(start, limit) ==
    {LogsOk(<< Log(start, Hash(start), 0, 1), Log(start + limit - 1, Hash(start + limit - 1), 0, 2) >>),
     LogsOk(<< Log(start, AltHash(start), 0, 1) >>),
     LogsOk(<< Log(start + limit, Hash(start + limit), 0, 1) >>),
     [LogsOk(<< >>) EXCEPT !.terr = TRUE],
     [LogsOk(<< >>) EXCEPT !.herr = 1],
     [LogsOk(<< >>) EXCEPT !.herr = 1, !.lerr = 2],
     [LogsOk(<< >>) EXCEPT !.lerr = 2],
     [LogsOk(<< >>) EXCEPT !.hnil = TRUE]}

Trace(bn, bh, tx, act) == [bn |-> bn, bh |-> bh, tx |-> tx, th |-> TxHash(bn, tx), act |-> act]
TracesOk(ts) == [terr |-> FALSE, code |-> 0, result |-> ts]
\* The answers to trace_block(n) for a Get of [start, start+limit)
TracesResps(n, start, limit) ==
    {TracesOk(<< Trace(n, Hash(n), 0, 1), Trace(n, Hash(n), 0, 2) >>),
     TracesOk(<< Trace(n, AltHash(n), 0, 1) >>),
     TracesOk(<< Trace(start + limit, Hash(start + limit), 0, 1) >>),
     TracesOk(<< >>),
     [TracesOk(<< >>) EXCEPT !.terr = TRUE],
     [TracesOk(<< >>) EXCEPT !.code = 1]}

InitGet == InitTipVars /\ \E nc \in BOOLEAN : InitWith(nc, {})

NextGet ==
    \E p \in Procs :
        \/ \E f \in Filters, k \in GetKeys : Get(p, f, k[1], k[2])
        \/ get_Lock(p)
        \/ \E k \in Keys : pruneMaxRead(p, k)
        \/ get_Lookup(p)
        \/ pruneSegments(p)
        \/ get_SegLock(p)
        \/ \E resp \in PrimaryResps(args[p].start, args[p].limit) : get_Fetched(p, resp)
        \/ \E resp \in ReceiptsResps(args[p].start, args[p].limit) : receipts_Resp(p, resp)
        \/ receipts_Find(p)
        \/ receipts_Write(p)
        \/ \E resp \in LogsResps(args[p].start, args[p].limit) : logs_Resp(p, resp)
        \/ \E k \in pend[p].groups : logs_Lock(p, k)
        \/ logs_Write(p)
        \/ \E resp \in TracesResps(args[p].start + pend[p].i, args[p].start, args[p].limit) :
              traces_Resp(p, resp)
        \/ traces_Write(p)
        \/ Get_Return(p)
        \/ Release(p)

SpecGet == InitGet /\ [][NextGet]_vars

(***************************************************************************)
(* Properties of Get, checked under SpecGet.                               *)
(***************************************************************************)
Primary(f) == f.UseBlocks \/ f.UseHeaders
Writing(p) == pc[p] \in {"receiptsWrite", "logsWrite", "tracesWrite"}
Enriching(p) == Writing(p) \/ pc[p] \in {"enrich", "receipts", "logs", "traces"}

\* C1 as claimed: every slice Get returns with a nil error is linked by
\* parent hash, with the hashes it holds when Get returns.
C1_ReturnedLinked ==
    [][\A p \in Procs :
        (pc[p] # "done" /\ pc'[p] = "done" /\ ret'[p] = Nil)
            => Linked(BlocksOf(p)')]_vars

\* C1 as amended: every slice the blocks or the headers fetcher returns with
\* a nil error is linked by parent hash when the fetcher returns it, and so
\* is the slice a Get with no enricher returns on a client that does not
\* cache; the enrichers write the hashes upstream reports into the blocks
\* after validate and nothing checks the linkage again.
C1_FetchedLinked ==
    /\ [][\A p \in Procs :
            (pc[p] = "fetching" /\ pc'[p] = "enrich") => Linked(BlocksOf(p)')]_vars
    /\ [](nocache =>
            \A p \in Procs :
                (pc[p] = "done" /\ ret[p] = Nil /\ Primary(args[p].filter)
                    /\ Enricher(args[p].filter) = "none")
                => Linked(BlocksOf(p)))

\* C1's case: the fetcher returned a slice of two blocks with their hashes
C1_Witness ==
    \E p \in Procs :
        /\ pc[p] = "enrich"
        /\ Primary(args[p].filter)
        /\ Len(BlocksOf(p)) = 2
        /\ BlocksOf(p)[1].hash # 0
        /\ BlocksOf(p)[2].parent = BlocksOf(p)[1].hash
        /\ \A i \in 1 .. 2 : BlocksOf(p)[i].txs = << >>

\* C7 as claimed: the blocks of a segment with done set never change.
C7_DoneImmutable ==
    [][\A s \in SegIds :
        (heap[s].done /\ heap'[s].done) => heap'[s].d = heap[s].d]_vars

\* C7 as amended: once done is set cache.get never stores into the segment
\* again, so the length of d, the order, the numbers and the parent hashes
\* of its blocks stay as fetched; the hash and the transactions of its
\* blocks change only by the write of an enricher of a Get that holds d.
C7_DoneKeepsChain ==
    [][\A s \in SegIds :
        (heap[s].done /\ heap'[s].done)
        => /\ Len(heap'[s].d) = Len(heap[s].d)
           /\ \A i \in DOMAIN heap[s].d :
                 /\ heap'[s].d[i].num = heap[s].d[i].num
                 /\ heap'[s].d[i].parent = heap[s].d[i].parent
           /\ heap'[s].d # heap[s].d
                 => \E p \in Procs :
                       /\ seg[p] = s
                       /\ Writing(p)
                       /\ pc'[p] \in {"receipts", "logs", "traces"}]_vars

\* C7's case: an enricher wrote transactions into a block of a done segment
C7_Witness ==
    \E s \in SegIds :
        /\ heap[s].done
        /\ \E i \in DOMAIN heap[s].d : heap[s].d[i].txs # << >>

\* C20: when the eth_getBlockByNumber answer of the logs batch carries an
\* Error with a code other than 0, Get fails with an error that carries
\* that code.
C20_HeaderErrorSurfaces ==
    [][\A p \in Procs :
        \A resp \in LogsResps(args[p].start, args[p].limit) :
            (logs_Resp(p, resp) /\ ~resp.terr /\ resp.herr # 0)
                => /\ pc'[p] = "done"
                   /\ ret'[p].code = resp.herr]_vars

(***************************************************************************)
(* The enrichment specification: Get calls for [1, 3) with blocks and one  *)
(* enricher each, on a caching client, so that concurrent calls enrich the *)
(* blocks of one cached segment.  Upstream answers the blocks well, and    *)
(* the enrichers well or with an element of a block outside [1, 3): first  *)
(* of its array or behind an element of the window.                        *)
(***************************************************************************)
EnrichFilters ==
    {Filter(TRUE, FALSE, TRUE, FALSE, FALSE), Filter(TRUE, FALSE, FALSE, TRUE, FALSE),
     Filter(TRUE, FALSE, FALSE, FALSE, TRUE)}

ReceiptsBeyond(start, limit) ==
    {ReceiptsOk([i \in 1 .. limit |-> << Receipt(start + i - 1, Hash(start + i - 1), 0) >>]),
     ReceiptsOk([i \in 1 .. limit |->
                   IF i = 1
                   THEN << Receipt(start, Hash(start), 0),
                           Receipt(start + limit + 1, Hash(start + limit + 1), 1) >>
                   ELSE << Receipt(start + i - 1, Hash(start + i - 1), 0) >>]),
     ReceiptsOk([i \in 1 .. limit |-> << Receipt(start + limit, Hash(start + limit), 0) >>])}

LogsBeyond(start, limit) ==
    {LogsOk(<< Log(start, Hash(start), 0, 1) >>),
     LogsOk(<< Log(start, Hash(start), 0, 1), Log(start + limit, Hash(start + limit), 0, 2) >>),
     LogsOk(<< Log(start + limit, Hash(start + limit), 0, 1) >>)}

TracesBeyond(n, start, limit) ==
    {TracesOk(<< Trace(n, Hash(n), 0, 1) >>),
     TracesOk(<< Trace(n, Hash(n), 0, 1), Trace(start + limit, Hash(start + limit), 1, 2) >>),
     TracesOk(<< Trace(start + limit, Hash(start + limit), 0, 1) >>)}

InitEnrich == InitTipVars /\ InitWith(FALSE, {})

NextEnrich ==
    \E p \in Procs :
        \/ \E f \in EnrichFilters, k \in GetKeys : Get(p, f, k[1], k[2])
        \/ get_Lock(p)
        \/ \E k \in Keys : pruneMaxRead(p, k)
        \/ get_Lookup(p)
        \/ pruneSegments(p)
        \/ get_SegLock(p)
        \/ get_Fetched(p, GoodResp(args[p].start, args[p].limit))
        \/ \E resp \in ReceiptsBeyond(args[p].start, args[p].limit) : receipts_Resp(p, resp)
        \/ receipts_Find(p)
        \/ receipts_Write(p)
        \/ \E resp \in LogsBeyond(args[p].start, args[p].limit) : logs_Resp(p, resp)
        \/ \E k \in pend[p].groups : logs_Lock(p, k)
        \/ logs_Write(p)
        \/ \E resp \in TracesBeyond(args[p].start + pend[p].i, args[p].start, args[p].limit) :
              traces_Resp(p, resp)
        \/ traces_Write(p)
        \/ Get_Return(p)
        \/ Release(p)

SpecEnrich == InitEnrich /\ [][NextEnrich]_vars

(***************************************************************************)
(* Properties of the enrichers, checked under SpecEnrich.                  *)
(***************************************************************************)
\* C19: Get never returns nil after it consumed a receipt, a log or a trace
\* whose blockNumber is outside [start, start+limit), at any position of
\* its array.
C19_OutOfRangeFails ==
    [][\A p \in Procs :
        (pc[p] # "done" /\ pc'[p] = "done" /\ ret'[p] = Nil) => ~pend[p].oor]_vars

\* C17: no two goroutines are inside the writes of an enricher to the same
\* block of the same segment at the same time.
C17_WritesSerialized ==
    \A p, q \in Procs :
        (p # q /\ Writing(p) /\ Writing(q) /\ seg[p] # 0 /\ seg[p] = seg[q])
            => pend[p].w # pend[q].w

(***************************************************************************)
(* Termination of cache.get: Get(UseBlocks) calls on an empty bcache for   *)
(* two keys, so that callers meet on one segment and on the table, with    *)
(* upstream answering or failing.  The steps of a goroutine inside         *)
(* cache.get are taken when they stay possible: the scheduler runs every   *)
(* goroutine that can run, and the fetcher returns.  Nothing makes a       *)
(* caller call Get or let go of what Get returned.                         *)
(***************************************************************************)
\* The steps of goroutine p between the entry of cache.get and its return
cache_get(p) ==
    \/ get_Lock(p)
    \/ \E k \in Keys : pruneMaxRead(p, k)
    \/ get_Lookup(p)
    \/ pruneSegments(p)
    \/ get_SegLock(p)
    \/ \E resp \in {GoodResp(args[p].start, args[p].limit), FailResp} :
          get_Fetched(p, resp)

NextLocks ==
    \E p \in Procs :
        \/ \E k \in {Key(2, 1), Key(2, 2)} : Get(p, OnlyBlocks, k[1], k[2])
        \/ cache_get(p)
        \/ Get_Return(p)
        \/ Release(p)

SpecLocksFair ==
    /\ InitEnrich
    /\ [][NextLocks]_vars
    /\ \A p \in Procs : WF_vars(cache_get(p))

\* C21: every call of cache.get returns, whatever the other callers do and
\* on whatever keys: a goroutine inside cache.get, between its c.Lock() and
\* the return of its fetcher, leaves it.
C21_GetReturns ==
    \A p \in Procs :
        pc[p] \in {"lock", "pruneMaxRead", "pruneSegments", "segLock", "fetching"}
            ~> pc[p] \in {"idle", "enrich", "done"}

\* C21's case: both layers are in use at once: a goroutine holds the table's
\* lock and waits in pruneMaxRead for the segment of its own key, which the
\* goroutine that fetches into it holds
C21_Witness ==
    \E p \in Procs :
        /\ WaitsForFetch(p)
        /\ \E q \in Procs \ {p} :
              /\ pc[q] = "fetching"
              /\ KeyOf(q) = KeyOf(p)
              /\ KeyOf(p) \in todo[p]
              /\ heap[seg[q]].mu

(***************************************************************************)
(* The fetcher specification: one goroutine of a client that does not      *)
(* cache calls Get(UseBlocks) and Get(UseHeaders), so that each call is    *)
(* one call of Client.blocks or Client.headers, and upstream answers with  *)
(* any array of up to limit items: an error, a null, or a block of any     *)
(* number up to MaxNum with one hash and either of two parent hashes.      *)
(***************************************************************************)
FetchItems ==
    {[code |-> 0, null |-> FALSE, num |-> n, hash |-> h, parent |-> ph] :
        n \in 1 .. MaxNum, h \in {Hash(1)}, ph \in {Hash(1), Hash(2)}}
    \cup {[code |-> 0, null |-> TRUE, num |-> 0, hash |-> 0, parent |-> 0],
          [code |-> 1, null |-> TRUE, num |-> 0, hash |-> 0, parent |-> 0]}

FetchResps(limit) ==
    {[terr |-> FALSE, items |-> it] :
        it \in UNION {[1 .. m -> FetchItems] : m \in 0 .. limit}}
    \cup {FailResp}

InitFetch == InitTipVars /\ InitWith(TRUE, {})

NextFetch ==
    \/ \E f \in {Filter(TRUE, FALSE, FALSE, FALSE, FALSE),
                 Filter(FALSE, TRUE, FALSE, FALSE, FALSE)}, k \in FetchKeys :
          Get(1, f, k[1], k[2])
    \/ \E resp \in FetchResps(args[1].limit) : get_Fetched(1, resp)
    \/ Get_Return(1)
    \/ Release(1)

SpecFetch == InitFetch /\ [][NextFetch]_vars

(***************************************************************************)
(* Properties of the fetchers, checked under SpecFetch.                    *)
(***************************************************************************)
\* The fetcher of goroutine p returns with a nil error
Fetched(p) == pc[p] = "fetching" /\ pc'[p] = "enrich"

\* C8 as claimed: a fetcher succeeds only if the result has limit blocks and
\* block i has the number start+i, for every i.
C8_ExactRange ==
    [][\A p \in Procs :
        Fetched(p) =>
            /\ Len(BlocksOf(p)') = args[p].limit
            /\ \A i \in 1 .. args[p].limit :
                  BlocksOf(p)'[i].num = args[p].start + i - 1]_vars

\* C8 as amended: a fetcher succeeds only if the result has limit >= 1
\* blocks, the first has the number start, the last the number
\* start+limit-1, and each block's parent hash is the hash of the block
\* before it; the numbers of the blocks in between are not checked.
C8_FirstLastLinked ==
    [][\A p \in Procs :
        Fetched(p) =>
            LET bs == BlocksOf(p)'
                limit == args[p].limit
            IN  /\ Len(bs) = limit
                /\ limit >= 1
                /\ bs[1].num = args[p].start
                /\ bs[limit].num = args[p].start + limit - 1
                /\ Linked(bs)]_vars

\* C8's case: a fetcher returned three blocks, the one in the middle with a
\* number that is not start+1
C8_Witness ==
    \E p \in Procs :
        /\ pc[p] = "enrich"
        /\ args[p].limit = 3
        /\ Len(BlocksOf(p)) = 3
        /\ BlocksOf(p)[2].num # args[p].start + 1

(***************************************************************************)
(* The TipCache specification: Latest calls and the refreshers they start, *)
(* on the client New leaves.                                               *)
(***************************************************************************)
Heads == {[terr |-> FALSE, code |-> 0, num |-> n, hash |-> Bytes32(n)] : n \in 1 .. MaxHead}
LatestResps ==
    Heads \cup {[terr |-> TRUE, code |-> 0, num |-> 0, hash |-> << >>],
                [terr |-> FALSE, code |-> 1, num |-> 0, hash |-> << >>]}

\* The NumHash after Latest calls that started a refresher, cached the head
\* MaxHead - 1 and had k hits since
WarmNumHash(k) ==
    [err |-> "", once |-> [done |-> TRUE, m |-> FALSE], nreads |-> k,
     Num |-> MaxHead - 1, Hash |-> Bytes32(MaxHead - 1)]

InitTip ==
    /\ InitWith(FALSE, {})
    /\ InitLatest
    /\ InitURL
    /\ InitWs
    /\ \/ lcache = NewNumHash /\ running = 0 /\ hits = 0
       \/ \E k \in {0, maxreads - 1} :
             lcache = WarmNumHash(k) /\ running = 1 /\ hits = k

NextTip ==
    \/ \E p \in Procs :
          \/ \E n \in 0 .. MaxHead : Latest(p, n)
          \/ Latest_Once(p)
          \/ Latest_DoSlow(p)
          \/ Latest_Store(p)
          \/ Latest_Unlock(p)
          \/ Latest_Get(p)
          \/ \E resp \in LatestResps : Latest_Rpc(p, resp)
          \/ Latest_Release(p)
    \/ \E resp \in Heads : Refresher_Update(resp)
    \/ Refresher_Error

SpecTip == InitTip /\ [][NextTip]_vars

(***************************************************************************)
(* Properties of the TipCache, checked under SpecTip.                      *)
(***************************************************************************)
\* A step of NumHash.get in goroutine p's Latest
GetStep(p) == lpc[p] = "get" /\ lpc'[p] # "get"

C10_ExpiryResets ==
    /\ [](hits <= maxreads)
    /\ [][\A p \in Procs :
            (GetStep(p) /\ hits = maxreads)
            => /\ lpc'[p] = "rpc"
               /\ lcache'.Num = 0
               /\ lcache'.Hash = << >>]_vars

\* C10 as amended: at most maxreads hits between two resets of nreads; the
\* get(n) that follows maxreads hits misses; it sets nreads and Num to 0 and
\* clears Hash when 0 < n <= Num, and leaves the NumHash as it is when n = 0
\* or n > Num.
C10_BoundedHits ==
    /\ [](hits <= maxreads /\ hits = lcache.nreads)
    /\ [][\A p \in Procs :
            (GetStep(p) /\ hits = maxreads)
            => /\ lpc'[p] = "rpc"
               /\ IF 0 < ln[p] /\ ln[p] <= lcache.Num
                  THEN /\ lcache' = [lcache EXCEPT !.nreads = 0, !.Num = 0, !.Hash = << >>]
                       /\ hits' = 0
                  ELSE lcache' = lcache]_vars

\* C10's case: a get after maxreads hits took Num to 0 and its Latest call
\* goes on to ask upstream
C10_Witness ==
    \E p \in Procs :
        /\ expired
        /\ lpc[p] = "rpc"
        /\ lcache.Num = 0
        /\ lcache.Hash = << >>
        /\ hits = 0

(***************************************************************************)
(* The bypass specification: the TipCache specification with callers that  *)
(* ask for any head (n = 0) or for head 1 or a later one (n = 1), which    *)
(* the cache answers when it can.                                          *)
(***************************************************************************)
NextZero ==
    \/ \E p \in Procs :
          \/ \E n \in {0, 1} : Latest(p, n)
          \/ Latest_Once(p)
          \/ Latest_DoSlow(p)
          \/ Latest_Store(p)
          \/ Latest_Unlock(p)
          \/ Latest_Get(p)
          \/ \E resp \in LatestResps : Latest_Rpc(p, resp)
          \/ Latest_Release(p)
    \/ \E resp \in Heads : Refresher_Update(resp)
    \/ Refresher_Error

SpecZero == InitTip /\ [][NextZero]_vars

\* C12: Latest(0) never answers from the cache.  Its get misses whatever
\* the NumHash holds and returns nothing to the caller, Latest asks upstream
\* and returns the head of that answer, or the error when the call failed.
C12_ZeroBypasses ==
    /\ [][\A p \in Procs :
            (GetStep(p) /\ ln[p] = 0) => (lpc'[p] = "rpc" /\ lret'[p] = lret[p])]_vars
    /\ [][\A p \in Procs : \A resp \in LatestResps :
            (Latest_Rpc(p, resp) /\ ln[p] = 0)
            => IF resp.terr \/ resp.code # 0
               THEN lret'[p].err # "" /\ lret'[p].n = 0 /\ lret'[p].h = << >>
               ELSE lret'[p] = [n |-> resp.num, h |-> resp.hash, err |-> ""]]_vars
    /\ [](\A p \in Procs :
            (lpc[p] = "done" /\ ln[p] = 0 /\ lret[p].err = "")
            => \E resp \in Heads : lret[p].n = resp.num /\ lret[p].h = resp.hash)

\* C12's case: Latest(0) returned upstream's head while the cache, with no
\* error pending and reads left, held a higher number
C12_Witness ==
    \E p \in Procs :
        /\ lpc[p] = "done"
        /\ ln[p] = 0
        /\ lret[p].err = ""
        /\ lcache.err = ""
        /\ lcache.nreads < maxreads
        /\ lret[p].n < lcache.Num

(***************************************************************************)
(* The heads specification: the TipCache specification against an upstream *)
(* that reports, for each number, either of two headers (a reorganisation, *)
(* or two endpoints that disagree), so that updates carry a number the     *)
(* cache holds with another hash.  The callers ask for any head (n = 0) or *)
(* for head 1 or a later one (n = 1), and upstream answers every call.     *)
(***************************************************************************)
ForkHeads ==
    UNION {{[terr |-> FALSE, code |-> 0, num |-> n, hash |-> h] :
               h \in {Bytes32(n), Bytes32(AltHash(n))}} : n \in 1 .. MaxHead}

NextHeads ==
    \/ \E p \in Procs :
          \/ \E n \in {0, 1} : Latest(p, n)
          \/ Latest_Once(p)
          \/ Latest_DoSlow(p)
          \/ Latest_Store(p)
          \/ Latest_Unlock(p)
          \/ Latest_Get(p)
          \/ \E resp \in ForkHeads : Latest_Rpc(p, resp)
          \/ Latest_Release(p)
    \/ \E resp \in ForkHeads : Refresher_Update(resp)
    \/ Refresher_Error

SpecHeads == InitTip /\ [][NextHeads]_vars

(***************************************************************************)
(* Properties of update, checked under SpecHeads.                          *)
(***************************************************************************)
\* A call of update with the head resp: the refresher's or Latest's
UpdateStep(resp) == Refresher_Update(resp) \/ \E p \in Procs : Latest_Rpc(p, resp)

\* The step of get that expires the cache (lines 247-258)
ExpiryStep ==
    \E p \in Procs :
        GetStep(p) /\ lcache.err = "" /\ ~Miss(lcache, ln[p]) /\ Expired(lcache)

\* C11: an update with a number above the cached one replaces the pair and
\* resets nreads, any other update leaves Num, Hash and nreads as they are;
\* apart from the expiry in get, Num never decreases and Hash changes only
\* when Num increases, so that the cache holds the pair of the first update
\* that carried the highest number.
C11_Monotone ==
    /\ [][\A resp \in ForkHeads :
            UpdateStep(resp) =>
                lcache' = IF resp.num > lcache.Num
                          THEN [lcache EXCEPT !.nreads = 0, !.Num = resp.num,
                                              !.Hash = resp.hash]
                          ELSE lcache]_vars
    /\ [][lcache'.Num < lcache.Num => ExpiryStep]_vars
    /\ [][lcache'.Hash # lcache.Hash
            => (lcache'.Num > lcache.Num \/ ExpiryStep)]_vars

\* C11's case: the one Latest call made got from upstream the number the
\* cache holds with another hash than the cached one, and the cache kept
\* its pair.
C11_Witness ==
    \E p \in Procs :
        /\ nlatest = 1
        /\ lpc[p] = "done"
        /\ lret[p].err = ""
        /\ lret[p].n = lcache.Num
        /\ Len(lcache.Hash) = HashLen
        /\ lret[p].h # lcache.Hash

(***************************************************************************)
(* The relaunch specification: the TipCache specification with the history *)
(* of which Latest call was the first to begin after a refresher failed.   *)
(***************************************************************************)
NextRelaunch ==
    \/ \E p \in Procs :
          \/ \E n \in 0 .. MaxHead : LatestWithin(p, n, MaxCalls, AfterFailure(p))
          \/ Latest_Once(p)
          \/ Latest_DoSlow(p)
          \/ Latest_Store(p)
          \/ Latest_Unlock(p)
          \/ Latest_Get(p)
          \/ \E resp \in LatestResps : Latest_Rpc(p, resp)
          \/ Latest_Release(p)
    \/ \E resp \in Heads : Refresher_Update(resp)
    \/ Refresher_Error

SpecRelaunch == InitTip /\ [][NextRelaunch]_vars

\* C13: the Latest call that is the first to begin after a refresher failed
\* (the error is pending, no refresher is alive, no other Latest call is in
\* progress) has started a refresher when it returns.
C13_NextLatestRelaunches ==
    \A p \in Procs : lpc[p] = "done" => ~owes[p]

(***************************************************************************)
(* The one-shot specification: goroutines call Latest(0) on the client New *)
(* leaves, and the refreshers they start fail at any time.                 *)
(***************************************************************************)
InitOnce == InitWith(FALSE, {}) /\ InitTipVars

NextOnce ==
    \/ \E p \in Callers :
          \/ LatestWithin(p, 0, MaxLatest, FALSE)
          \/ Latest_Once(p)
          \/ Latest_DoSlow(p)
          \/ Latest_Store(p)
          \/ Latest_Unlock(p)
          \/ Latest_Get(p)
          \/ \E resp \in LatestResps \ Heads : Latest_Rpc(p, resp)
          \/ Latest_Release(p)
    \/ Refresher_Error

SpecOnce == InitOnce /\ [][NextOnce]_vars

\* C14: at every moment at most one refresher of the client is running.
C14_OneRefresher == running <= 1

(***************************************************************************)
(* The endpoint specification: goroutines call NextURL on the client New   *)
(* leaves with NumURLs endpoints.                                          *)
(***************************************************************************)
InitNextURL == InitWith(FALSE, {}) /\ InitTipVars

NextNextURL ==
    \E p \in Callers : NextURL(p) \/ NextURL_Read(p)

SpecURL == InitNextURL /\ [][NextNextURL]_vars

\* C15: when k * NumURLs calls of NextURL have been made and all have
\* returned, each endpoint was returned exactly k times.
C15_RoundRobin ==
    \A k \in 1 .. MaxNext :
        (nnext = k * NumURLs /\ \A p \in Callers : upc[p] = "idle")
            => \A u \in DOMAIN picked : picked[u] = k

(***************************************************************************)
(* Client.wsListen (lines 271-307).  Its context is made once, at line     *)
(* 272, with a timeout of a minute, and is the context of the dial, of the *)
(* write of eth_subscribe and of every read of the loop: an operation      *)
(* called or still waiting when the minute is over returns the context's   *)
(* error.  Time is counted in quarters of a minute.                        *)
(***************************************************************************)
\* time.Minute (line 272)
Minute == 4

\* go c.wsListen(context.Background()) (line 351) and line 272
wsListen ==
    /\ wpc \in {"none", "returned"}
    /\ nlisten < MaxListens
    /\ nlisten' = nlisten + 1
    /\ wpc' = "dial"
    /\ elapsed' = 0
    /\ broken' = FALSE
    /\ running' = running + 1
    /\ UNCHANGED << lcache, fatal, lpc, ln, lret, nlatest, hits, expired, owes, getVars, urlVars >>

\* A quarter of a minute passes while wsListen runs
ws_Tick ==
    /\ wpc \in {"dial", "subscribe", "read"}
    /\ elapsed < Minute
    /\ elapsed' = elapsed + 1
    /\ UNCHANGED << wpc, broken, nlisten, tipVars, getVars, urlVars >>

\* c.lcache.error(...); return (lines 277-278, 287-288, 298-299); failed:
\* the error is the network's and not the context's
ws_Return(e, failed) ==
    /\ wpc' = "returned"
    /\ broken' = failed
    /\ running' = running - 1
    /\ lcache' = error(lcache, e)
    /\ hits' = Hits(lcache, lcache', FALSE)
    /\ UNCHANGED << elapsed, nlisten, fatal, lpc, ln, lret, nlatest, expired, owes, getVars, urlVars >>

\* websocket.Dial (lines 275-279); ok: the network lets it succeed
ws_Dial(ok) ==
    /\ wpc = "dial"
    /\ IF elapsed >= Minute THEN ws_Return("ws dial", FALSE)
       ELSE IF ~ok THEN ws_Return("ws dial", TRUE)
       ELSE /\ wpc' = "subscribe"
            /\ UNCHANGED << elapsed, broken, nlisten, tipVars, getVars, urlVars >>

\* wsjson.Write of eth_subscribe (lines 280-289)
ws_Write(ok) ==
    /\ wpc = "subscribe"
    /\ IF elapsed >= Minute THEN ws_Return("ws write", FALSE)
       ELSE IF ~ok THEN ws_Return("ws write", TRUE)
       ELSE /\ wpc' = "read"
            /\ UNCHANGED << elapsed, broken, nlisten, tipVars, getVars, urlVars >>

\* One iteration of the loop (lines 296-306): wsjson.Read and update; the
\* Error of the message is not looked at
ws_Read(resp) ==
    /\ wpc = "read"
    /\ IF elapsed >= Minute THEN ws_Return("ws read", FALSE)
       ELSE IF resp.terr THEN ws_Return("ws read", TRUE)
       ELSE /\ lcache' = update(lcache, resp.num, resp.hash)
            /\ hits' = Hits(lcache, lcache', FALSE)
            /\ UNCHANGED << wsVars, running, fatal, lpc, ln, lret, nlatest, expired, owes,
                            getVars, urlVars >>

(***************************************************************************)
(* The WebSocket specification: wsListen on the client New leaves, started *)
(* again after it returned, against a network that lets each operation     *)
(* succeed or fail and sends any head, while time passes.                  *)
(***************************************************************************)
NextListen ==
    \/ wsListen
    \/ ws_Tick
    \/ \E ok \in BOOLEAN : ws_Dial(ok)
    \/ \E ok \in BOOLEAN : ws_Write(ok)
    \/ \E resp \in LatestResps : ws_Read(resp)

SpecListen == InitOnce /\ [][NextListen]_vars

\* C22: once dial and subscribe have succeeded, wsListen returns only when
\* a read or a write on the connection fails: the timeout does not end the
\* loop of reads.
C22_ReadsUntilConnFails ==
    [][(wpc = "read" /\ wpc' = "returned") => broken']_vars

====
